---- MODULE Spec2Model ----
(***************************************************************************)
(* The Gemini + Windows-MCP agent of operate/: the turn loop of            *)
(* GeminiMCPAgent.run, the planner client GeminiPlanner.propose_actions    *)
(* and the HTTP transport MCPToolAdapter.invoke / get_state.               *)
(*                                                                         *)
(* The remote model and the remote MCP server are the environment: every   *)
(* planner call draws one model response and every transport call draws    *)
(* one outcome per candidate path.                                         *)
(***************************************************************************)
EXTENDS Integers, Sequences, FiniteSets, TLC

\* ------------------------------------------------------------------------
\* Bounds of the model
\* ------------------------------------------------------------------------
\* largest max_turns handed to the agent (the smallest is -1)
MaxTurns == 3
\* largest number of parts in one model response
MaxParts == 2
\* the environment stops proposing dispatches once history holds this many
MaxHistory == 2

\* ------------------------------------------------------------------------
\* JSON / Python values.  Every value is a record of one shape:
\*   type  : "dict" | "list" | "str" | "num" | "null"
\*   str   : the text of a str, the literal of a num
\*   items : the key -> value function of a dict (<<>> otherwise)
\* ------------------------------------------------------------------------
Str(s) == [type |-> "str", str |-> s, items |-> <<>>]
Num(s) == [type |-> "num", str |-> s, items |-> <<>>]
Null == [type |-> "null", str |-> "", items |-> <<>>]
EmptyList == [type |-> "list", str |-> "", items |-> <<>>]
Dict(f) == [type |-> "dict", str |-> "", items |-> f]
EmptyDict == Dict(<<>>)
PyTrue == [type |-> "bool", str |-> "true", items |-> <<>>]
PyFalse == [type |-> "bool", str |-> "false", items |-> <<>>]
PyBool(b) == IF b THEN PyTrue ELSE PyFalse

\* the value of a variable nothing was assigned to
NoValue == [type |-> "unset", str |-> "", items |-> <<>>]

\* isinstance(v, str)
IsStr(v) == v.type = "str"

\* Python truthiness, as used by `x or {}` and `if not x`
Truthy(v) ==
    CASE v.type = "dict" -> DOMAIN v.items # {}
      [] v.type = "list" -> FALSE
      [] v.type = "str" -> v.str # ""
      [] v.type = "num" -> v.str # "0"
      [] v.type = "bool" -> v.str = "true"
      [] OTHER -> FALSE

\* only a dict has .get; any other value raises AttributeError
HasGet(v) == v.type = "dict"

\* d.get(key, default)
Get(d, key, default) == IF key \in DOMAIN d.items THEN d.items[key] ELSE default

\* the keys of the dicts of the model, in the order json.dumps writes them
KeyOrder == <<"name", "tool", "arguments", "summary", "text", "use_vision">>

RECURSIVE DumpsText(_)
RECURSIVE DumpsItems(_, _, _)
\* the members of dict d from position i of KeyOrder on; first: no member yet
DumpsItems(d, i, first) ==
    IF i > Len(KeyOrder) THEN ""
    ELSE IF KeyOrder[i] \in DOMAIN d.items
         THEN (IF first THEN "" ELSE ", ")
                  \o "\"" \o KeyOrder[i] \o "\": " \o DumpsText(d.items[KeyOrder[i]])
                  \o DumpsItems(d, i + 1, FALSE)
         ELSE DumpsItems(d, i + 1, first)
\* the text json.dumps(v) produces
DumpsText(v) ==
    CASE v.type = "dict" -> "{" \o DumpsItems(v, 1, TRUE) \o "}"
      [] v.type = "list" -> "[]"
      [] v.type = "str" -> "\"" \o v.str \o "\""
      [] v.type = "null" -> "null"
      [] OTHER -> v.str

\* json.dumps(v), a Python str
Dumps(v) == Str(DumpsText(v))

\* ------------------------------------------------------------------------
\* The MCP server, as the transport sees it
\* ------------------------------------------------------------------------
\* the adapter's base address, trailing "/" stripped
base_url == "http://localhost:8000"

\* the body of a 2xx response: JSON that decodes to `json`, or raw text
JsonBody == [decodable |-> TRUE, json |-> Dict("text" :> Str("ok")), text |-> "{\"text\": \"ok\"}"]
TextBody == [decodable |-> FALSE, json |-> NoValue, text |-> "done"]
StringBody == [decodable |-> TRUE, json |-> Str("desktop"), text |-> "\"desktop\""]
ListBody == [decodable |-> TRUE, json |-> EmptyList, text |-> "[]"]
NoBody == [decodable |-> FALSE, json |-> NoValue, text |-> ""]
Bodies == {JsonBody, TextBody, StringBody, ListBody}

\* what requests.post can raise
Errors == {"ConnectionError", "ReadTimeout"}

\* the outcome of one HTTP request: a 2xx response, a non-2xx response, or
\* an exception raised by session.post
OkOutcomes == {[kind |-> "ok", body |-> b, err |-> ""] : b \in Bodies}
StatusOutcome == [kind |-> "status", body |-> NoBody, err |-> ""]
ExcOutcomes == {[kind |-> "exc", body |-> NoBody, err |-> e] : e \in Errors}
FailOutcomes == {StatusOutcome} \cup ExcOutcomes
Outcomes == OkOutcomes \cup FailOutcomes

\* the outcomes of the requests of one invoke, in the order they are made:
\* nothing is requested after a 2xx response
TransportOutcomes ==
    {<<o>> : o \in OkOutcomes} \cup {<<f, o>> : f \in FailOutcomes, o \in Outcomes}

Ok(body) == [kind |-> "ok", body |-> body, err |-> ""]
Exc(e) == [kind |-> "exc", body |-> NoBody, err |-> e]

\* the outcomes the server shows a run: of a state probe, of a tool call
ProbeOutcomes == {<<Ok(JsonBody)>>, <<StatusOutcome, Exc("ConnectionError")>>}
DispatchOutcomes ==
    {<<StatusOutcome, Ok(JsonBody)>>, <<Exc("ConnectionError"), StatusOutcome>>}

\* s.endswith(suffix), for the paths invoke builds
PathStems == {"/", "/tools/", "/tools/re"}
EndsWith(s, suffix) == \E stem \in PathStems : s = stem \o suffix

\* response.json(), or response.text when the body does not decode
_parse_response(body) == IF body.decodable THEN body.json ELSE Str(body.text)

\* call_paths = ["/call", f"/tools/{name}"]
call_paths_single(name) == <<"/call">>
call_paths_swapped(name) == <<"/tools/" \o name, "/call">>
call_paths(name) == <<"/call", "/tools/" \o name>>

\* payload = {"name": name, "arguments": arguments or {}}
Payload(name, arguments) ==
    Dict(("name" :> Str(name)) @@
         ("arguments" :> (IF Truthy(arguments) THEN arguments ELSE EmptyDict)))

\* the text of the MCPCallError raised when every candidate failed;
\* last_error is <<>> while `last_error` is not among the locals
FailureMessageAnonymous(name, last_error) ==
    LET message == "Failed to call MCP tool via " \o base_url
    IN  IF last_error # <<>> THEN message \o ": " \o last_error[1] ELSE message
FailureMessage(name, last_error) ==
    LET message == "Failed to call MCP tool " \o name \o " via " \o base_url
    IN  IF last_error # <<>> THEN message \o ": " \o last_error[1] ELSE message

RECURSIVE TryPaths(_, _, _, _, _, _)
\* the for loop of invoke from candidate i on; requests: the requests sent
TryPaths(name, arguments, outs, i, last_error, requests) ==
    IF i > Len(call_paths(name))
    THEN [raised |-> TRUE, exc |-> "MCPCallError", value |-> NoValue,
          message |-> FailureMessage(name, last_error), requests |-> requests]
    ELSE LET path == call_paths(name)[i]
             sent == Append(requests,
                        [url |-> base_url \o path,
                         json |-> IF EndsWith(path, "call")
                                  THEN Payload(name, arguments) ELSE arguments])
             o == outs[i]
         IN  CASE o.kind = "ok" ->
                    [raised |-> FALSE, exc |-> "", value |-> _parse_response(o.body),
                     message |-> "", requests |-> sent]
               [] o.kind = "exc" ->
                    TryPaths(name, arguments, outs, i + 1, <<o.err>>, sent)
               [] OTHER ->
                    TryPaths(name, arguments, outs, i + 1, last_error, sent)

\* MCPToolAdapter.invoke: the value returned, or raised with the message of
\* the MCPCallError
invoke(name, arguments, outs) == TryPaths(name, arguments, outs, 1, <<>>, <<>>)

\* MCPToolAdapter.get_state: a str, or the MCPCallError of invoke
get_state_raw(use_vision, outs) ==
    invoke("State-Tool", Dict("use_vision" :> PyBool(use_vision)), outs)
get_state(use_vision, outs) ==
    LET response == invoke("State-Tool", Dict("use_vision" :> PyBool(use_vision)), outs)
    IN  IF response.raised THEN response
        ELSE [response EXCEPT !.value =
                 IF IsStr(response.value) THEN response.value
                 ELSE Dumps(response.value)]

\* ------------------------------------------------------------------------
\* The tool declarations
\* ------------------------------------------------------------------------
\* one function declaration: its name, the JSON type of each property of
\* its parameters, and the "required" list (<<>> where there is none)
Declaration(name, properties, required) ==
    [name |-> name, properties |-> properties, required |-> required]

\* MCPToolAdapter.tool_declarations
tool_declarations ==
    << Declaration("State-Tool", "use_vision" :> "boolean", <<>>),
       Declaration("App-Tool",
           ("mode" :> "string") @@ ("name" :> "string") @@
           ("window_loc" :> "array") @@ ("window_size" :> "array"), <<>>),
       Declaration("Click-Tool",
           ("loc" :> "array") @@ ("button" :> "string") @@ ("clicks" :> "integer"),
           <<>>),
       Declaration("Move-Tool", "to_loc" :> "array", <<>>),
       Declaration("Drag-Tool", "to_loc" :> "array", <<>>),
       Declaration("Type-Tool",
           ("loc" :> "array") @@ ("text" :> "string") @@ ("clear" :> "boolean") @@
           ("press_enter" :> "boolean"), <<>>),
       Declaration("Shortcut-Tool", "shortcut" :> "string", <<>>),
       Declaration("Scroll-Tool",
           ("loc" :> "array") @@ ("type" :> "string") @@ ("direction" :> "string") @@
           ("wheel_times" :> "integer"), <<>>),
       Declaration("Wait-Tool", "duration" :> "integer", <<>>),
       Declaration("Powershell-Tool", "command" :> "string", <<>>),
       Declaration("Scrape-Tool", "url" :> "string", <<>>) >>

FINISH_TOOL == Declaration("finish_task", "summary" :> "string", <<"summary">>)

\* the list build_agent hands to GeminiPlanner
build_agent_without_finish == tool_declarations
build_agent == tool_declarations \o <<FINISH_TOOL>>

\* ------------------------------------------------------------------------
\* The remote model, as the planner client sees it
\* ------------------------------------------------------------------------
\* the tool names the model asks for: the finish name, a declared tool and
\* a name that is in no declaration
ToolNames == {"finish_task", "App-Tool", "recall"}

SummaryArgs == Dict("summary" :> Str("typed hello in notepad"))
NumberSummaryArgs == Dict("summary" :> Num("5"))
TextArgs == Dict("text" :> Str("hello"))

\* function_call.args as the SDK hands it over: a protobuf message, a plain
\* mapping, or something neither MessageToDict nor dict() accepts
RawArgs(form, value) == [form |-> form, value |-> value]

\* one part of the first candidate's content
CallPart(name, args) == [has_call |-> TRUE, name |-> name, args |-> args]
TextPart == [has_call |-> FALSE, name |-> "", args |-> RawArgs("opaque", EmptyDict)]
CallParts ==
    {CallPart("finish_task", RawArgs("message", SummaryArgs)),
     CallPart("App-Tool", RawArgs("message", TextArgs))}
Parts == CallParts \cup {TextPart}

RECURSIVE SeqsUpTo(_, _)
\* the sequences over S of length at most n
SeqsUpTo(S, n) ==
    IF n = 0 THEN {<<>>}
    ELSE LET shorter == SeqsUpTo(S, n - 1)
         IN  shorter \cup {Append(q, x) : q \in shorter, x \in S}

\* response.text: absent, text that is not JSON, or text that parses to json
NoText == [present |-> FALSE, parses |-> FALSE, json |-> NoValue]
ProseText == [present |-> TRUE, parses |-> FALSE, json |-> NoValue]
JsonText(v) == [present |-> TRUE, parses |-> TRUE, json |-> v]

\* the free-text fallback object: its 'arguments' member may be absent or
\* any JSON value
FallbackObjects ==
    {Dict("tool" :> Str("recall")),
     Dict("tool" :> Str("finish_task")),
     Dict(("tool" :> Str("finish_task")) @@ ("arguments" :> NumberSummaryArgs)),
     Dict(("tool" :> Str("finish_task")) @@ ("arguments" :> EmptyList))}
Texts ==
    {NoText, ProseText, JsonText(EmptyList), JsonText(TextArgs)}
        \cup {JsonText(o) : o \in FallbackObjects}

\* what generate_content does: raises, or returns a response whose
\* candidates hold the parts
ErrorResponse == [kind |-> "error", candidates |-> <<>>, text |-> NoText]
OkResponse(candidates, text) == [kind |-> "ok", candidates |-> candidates, text |-> text]
Responses ==
    {ErrorResponse}
        \cup {OkResponse(c, t) :
                 c \in {<<>>, <<[parts |-> <<>>]>>, <<[parts |-> <<TextPart>>]>>},
                 t \in Texts}
        \cup {OkResponse(<<[parts |-> ps]>>, NoText) : ps \in SeqsUpTo(Parts, MaxParts)}
        \cup {OkResponse(<<[parts |-> <<p>>]>>, JsonText(Dict("tool" :> Str("recall")))) :
                 p \in CallParts}

\* ------------------------------------------------------------------------
\* GeminiPlanner
\* ------------------------------------------------------------------------
ToolCall(name, arguments) == [name |-> name, arguments |-> arguments]

\* one line of the prompt per history entry
HistoryLine(item) ==
    "- tool=" \o item.tool \o " args=" \o DumpsText(item.args) \o " -> " \o item.result.str

\* GeminiPlanner.build_prompt: the parts of the prompt that vary
build_prompt_latest(objective, state, history) ==
    [objective |-> objective,
     state |-> state,
     history_block |-> IF history # <<>>
                       THEN <<HistoryLine(history[Len(history)])>>
                       ELSE <<"(none yet)">>]
build_prompt(objective, state, history) ==
    [objective |-> objective,
     state |-> state,
     history_block |-> IF history # <<>>
                       THEN [i \in 1..Len(history) |-> HistoryLine(history[i])]
                       ELSE <<"(none yet)">>]

\* GeminiPlanner._parse_args
_parse_args(args) ==
    CASE args.form = "message" -> args.value
      [] args.form = "mapping" -> args.value
      [] OTHER -> EmptyDict

\* the first loop of propose_actions: one ToolCall per part with a call
StructuredCallsReversed(parts) ==
    LET with_call == SelectSeq(parts, LAMBDA part : part.has_call)
    IN  [i \in 1..Len(with_call) |->
            ToolCall(with_call[Len(with_call) + 1 - i].name,
                     _parse_args(with_call[Len(with_call) + 1 - i].args))]
StructuredCallsDecodable(parts) ==
    LET with_call ==
            SelectSeq(parts, LAMBDA part : part.has_call /\ part.args.form # "opaque")
    IN  [i \in 1..Len(with_call) |->
            ToolCall(with_call[i].name, _parse_args(with_call[i].args))]
StructuredCalls(parts) ==
    LET with_call == SelectSeq(parts, LAMBDA part : part.has_call)
    IN  [i \in 1..Len(with_call) |->
            ToolCall(with_call[i].name, _parse_args(with_call[i].args))]

\* the fallback of propose_actions on response.text
FallbackCalls(text) ==
    IF ~text.parses THEN <<>>
    ELSE IF text.json.type = "dict" /\ "tool" \in DOMAIN text.json.items
         THEN <<ToolCall(Get(text.json, "tool", Str("")).str,
                         Get(text.json, "arguments", EmptyDict))>>
         ELSE <<>>

\* GeminiPlanner.propose_actions on the response generate_content produced:
\* the list returned, or raised when generate_content raised
propose_actions(objective, state, history, response) ==
    LET prompt == build_prompt(objective, state, history)
    IN  IF response.kind = "error"
        THEN [raised |-> TRUE, exc |-> "Exception", value |-> <<>>, prompt |-> prompt]
        ELSE LET content == IF response.candidates # <<>>
                            THEN response.candidates[1] ELSE [parts |-> <<>>]
                 tool_calls == StructuredCalls(content.parts)
             IN  [raised |-> FALSE, exc |-> "",
                  value |-> IF tool_calls = <<>> /\ response.text.present
                            THEN tool_calls \o FallbackCalls(response.text)
                            ELSE tool_calls,
                  prompt |-> prompt]

\* ------------------------------------------------------------------------
\* GeminiMCPAgent
\* ------------------------------------------------------------------------
VARIABLES
    objective,      \* self.objective
    use_vision,     \* self.use_vision
    max_turns,      \* self.max_turns
    history,        \* self.history
    pc,             \* where run() is: "loop", "plan", "act", "returned", "raised"
    turn,           \* iterations of `for turn in range(self.max_turns)` started
    state,          \* the local `state` of run()
    tool_calls,     \* the calls of the local `tool_calls` not yet iterated over
    result,         \* the value run() returned
    error,          \* the exception that left run()
    probes,         \* one record per get_state call made
    plans,          \* one record per propose_actions call made
    dispatched,     \* one record per invoke call made for an action
    planner_tool_declarations,  \* planner.tool_declarations
    transport,      \* the last call made on the adapter, and how it went
    proposal        \* the call of propose_actions made on the planner alone

vars == <<objective, use_vision, max_turns, history, pc, turn, state, tool_calls,
          result, error, probes, plans, dispatched, planner_tool_declarations,
          transport, proposal>>

config == <<objective, use_vision, max_turns, planner_tool_declarations>>

\* no call was made on the adapter yet
NoCall ==
    [method |-> "", name |-> "", arguments |-> NoValue, outs |-> <<>>,
     raised |-> FALSE, exc |-> "", value |-> NoValue, message |-> "",
     requests |-> <<>>]

\* a call of a method of the adapter, the outcomes of its requests and its
\* response: what it returned or raised, and the requests it sent
Call(method, name, arguments, outs, response) ==
    [method |-> method, name |-> name, arguments |-> arguments, outs |-> outs,
     raised |-> response.raised, exc |-> response.exc, value |-> response.value,
     message |-> response.message, requests |-> response.requests]

\* propose_actions was not called yet
NoProposal ==
    [called |-> FALSE, response |-> ErrorResponse, raised |-> FALSE, value |-> <<>>]

\* a call of propose_actions: what generate_content answered, and the list
\* it returned or that it raised
Proposal(response, proposed) ==
    [called |-> TRUE, response |-> response, raised |-> proposed.raised,
     value |-> proposed.value]

Canned == Str("Reached max turns or no further actions were provided.")

Returned(value) == [raised |-> FALSE, exc |-> "", value |-> value]
Raised(exc) == [raised |-> TRUE, exc |-> exc, value |-> NoValue]

\* range(self.max_turns) has no element left after t iterations
RangeExhaustedEarly(t, m) == t + 1 >= m
RangeExhaustedLate(t, m) == t > m
RangeExhausted(t, m) == t >= m

\* where run() is after get_state raised in iteration t + 1: nothing in
\* run() catches the MCPCallError
ProbeFailureRetried(t) == [pc |-> "loop", error |-> "", turn |-> t]
ProbeFailureSwallowed(t) == [pc |-> "plan", error |-> "", turn |-> t + 1]
ProbeFailure(t) == [pc |-> "raised", error |-> "MCPCallError", turn |-> t + 1]

\* where run() is after an empty tool_calls: the break, then the return
EmptyProposalContinues == [pc |-> "loop", result |-> NoValue]
EmptyProposalNamed == [pc |-> "returned", result |-> Str("No further actions were provided.")]
EmptyProposal == [pc |-> "returned", result |-> Canned]

\* GeminiMCPAgent._next_actions
_next_actions_uncaught(obj, st, hist, response) ==
    LET proposed == propose_actions(obj, st, hist, response)
    IN  IF proposed.raised THEN Raised(proposed.exc) ELSE Returned(proposed.value)
_next_actions(obj, st, hist, response) ==
    LET proposed == propose_actions(obj, st, hist, response)
    IN  IF proposed.raised THEN Returned(<<>>) ELSE Returned(proposed.value)

\* the str _invoke_tool returns for an MCPCallError
FailureText(message) == Str("MCP call failed: " \o message)

\* GeminiMCPAgent._invoke_tool
_invoke_tool_reraising(call, outs) ==
    LET response == invoke(call.name, call.arguments, outs)
    IN  IF response.raised THEN Raised("MCPCallError") ELSE Returned(response.value)
_invoke_tool(call, outs) ==
    LET response == invoke(call.name, call.arguments, outs)
    IN  IF response.raised THEN Returned(FailureText(response.message))
        ELSE Returned(response.value)

\* every str _invoke_tool can return for a failed call
FailureResults ==
    {FailureText(FailureMessage(n, e)) :
        n \in ToolNames, e \in {<<>>} \cup {<<x>> : x \in Errors}}

\* GeminiMCPAgent._record_history: the new self.history
_record_history_twice(hist, call, res) ==
    LET serialized_result == IF res.type \in {"dict", "list"} THEN Dumps(res) ELSE res
        entry == [tool |-> call.name, args |-> call.arguments,
                  result |-> serialized_result]
    IN  Append(Append(hist, entry), entry)
_record_history_prepending(hist, call, res) ==
    LET serialized_result == IF res.type \in {"dict", "list"} THEN Dumps(res) ELSE res
    IN  <<[tool |-> call.name, args |-> call.arguments,
           result |-> serialized_result]>> \o hist
_record_history_dropping(hist, call, res) ==
    IF res \in FailureResults THEN hist
    ELSE Append(hist, [tool |-> call.name, args |-> call.arguments,
                       result |-> IF res.type \in {"dict", "list"} THEN Dumps(res) ELSE res])
_record_history(hist, call, res) ==
    LET serialized_result == IF res.type \in {"dict", "list"} THEN Dumps(res) ELSE res
    IN  Append(hist, [tool |-> call.name, args |-> call.arguments,
                      result |-> serialized_result])

\* `return call.arguments.get("summary", "")`
FinishValueCanned(call) ==
    IF HasGet(call.arguments) THEN Returned(Canned) ELSE Raised("AttributeError")
FinishValue(call) ==
    IF HasGet(call.arguments) THEN Returned(Get(call.arguments, "summary", Str("")))
    ELSE Raised("AttributeError")

\* `if call.name == "finish_task"`
IsFinishNever(call) == FALSE
IsFinish(call) == call.name = "finish_task"

\* where run() is after a call was dispatched and recorded: at the next
\* call of the list, or at the top of the for loop when none is left
AfterDispatchProbes(rest) == "loop"
AfterDispatch(rest) == IF rest = <<>> THEN "loop" ELSE "act"

NonFinish(calls) == SelectSeq(calls, LAMBDA c : ~IsFinish(c))

Init ==
    /\ objective = "open notepad and type hello"
    /\ use_vision \in BOOLEAN
    /\ max_turns \in (-1)..MaxTurns
    /\ history = <<>>
    /\ pc = "loop"
    /\ turn = 0
    /\ state = NoValue
    /\ tool_calls = <<>>
    /\ result = NoValue
    /\ error = ""
    /\ probes = <<>>
    /\ plans = <<>>
    /\ dispatched = <<>>
    /\ planner_tool_declarations = build_agent
    /\ transport = NoCall
    /\ proposal = NoProposal

\* the next iteration of the for loop begins: the state probe
Probe ==
    /\ pc = "loop"
    /\ ~RangeExhausted(turn, max_turns)
    /\ \E outs \in ProbeOutcomes :
          LET snapshot == get_state(use_vision, outs)
              after == IF snapshot.raised THEN ProbeFailure(turn)
                       ELSE [pc |-> "plan", error |-> error, turn |-> turn + 1]
          IN  /\ probes' = Append(probes,
                              [turn |-> turn + 1, use_vision |-> use_vision,
                               failed |-> snapshot.raised])
              /\ pc' = after.pc
              /\ error' = after.error
              /\ turn' = after.turn
              /\ state' = IF snapshot.raised THEN state ELSE snapshot.value
              /\ transport' = Call("get_state", "", PyBool(use_vision), outs, snapshot)
    /\ UNCHANGED <<config, history, tool_calls, result, plans, dispatched, proposal>>

\* range(self.max_turns) is exhausted: the return after the loop
Exhausted ==
    /\ pc = "loop"
    /\ RangeExhausted(turn, max_turns)
    /\ pc' = "returned"
    /\ result' = Canned
    /\ UNCHANGED <<config, history, turn, state, tool_calls, error, probes, plans,
                   dispatched, transport, proposal>>

\* _next_actions(state), and the break on an empty list; the remote model
\* asks for no more than MaxHistory dispatches in one run
Plan ==
    /\ pc = "plan"
    /\ \E response \in Responses :
          LET proposed == propose_actions(objective, state.str, history, response)
              next == _next_actions(objective, state.str, history, response)
          IN  /\ Len(history) + Len(NonFinish(proposed.value)) <= MaxHistory
              /\ plans' = Append(plans,
                              [turn |-> turn, history |-> history,
                               prompt |-> proposed.prompt,
                               raised |-> proposed.raised, calls |-> next.value])
              /\ IF next.raised
                 THEN /\ pc' = "raised"
                      /\ error' = next.exc
                      /\ UNCHANGED <<tool_calls, result>>
                 ELSE IF next.value = <<>>
                 THEN /\ pc' = EmptyProposal.pc
                      /\ result' = EmptyProposal.result
                      /\ UNCHANGED <<tool_calls, error>>
                 ELSE /\ pc' = "act"
                      /\ tool_calls' = next.value
                      /\ UNCHANGED <<result, error>>
    /\ UNCHANGED <<config, history, turn, state, probes, dispatched, transport,
                   proposal>>

\* the next call is finish_task: run() returns its summary
Finish ==
    /\ pc = "act"
    /\ tool_calls # <<>>
    /\ IsFinish(Head(tool_calls))
    /\ LET outcome == FinishValue(Head(tool_calls))
       IN  IF outcome.raised
           THEN /\ pc' = "raised"
                /\ error' = outcome.exc
                /\ result' = result
           ELSE /\ pc' = "returned"
                /\ result' = outcome.value
                /\ error' = error
    /\ UNCHANGED <<config, history, turn, state, tool_calls, probes, plans,
                   dispatched, transport, proposal>>

\* the next call is any other tool: _invoke_tool, then _record_history
Dispatch ==
    /\ pc = "act"
    /\ tool_calls # <<>>
    /\ ~IsFinish(Head(tool_calls))
    /\ \E outs \in DispatchOutcomes :
          LET call == Head(tool_calls)
              invoked == _invoke_tool(call, outs)
          IN  /\ transport' = Call("invoke", call.name, call.arguments, outs,
                                   invoke(call.name, call.arguments, outs))
              /\ dispatched' = Append(dispatched,
                                  [turn |-> turn, name |-> call.name,
                                   arguments |-> call.arguments,
                                   failed |-> invoke(call.name, call.arguments, outs).raised])
              /\ IF invoked.raised
                 THEN /\ pc' = "raised"
                      /\ error' = invoked.exc
                      /\ UNCHANGED <<history, tool_calls>>
                 ELSE /\ history' = _record_history(history, call, invoked.value)
                      /\ tool_calls' = Tail(tool_calls)
                      /\ pc' = AfterDispatch(Tail(tool_calls))
                      /\ error' = error
    /\ UNCHANGED <<config, turn, state, result, probes, plans, proposal>>

Next == Probe \/ Exhausted \/ Plan \/ Finish \/ Dispatch

Spec == Init /\ [][Next]_vars

\* run() is one thread of blocking calls, each bounded by a timeout: a step
\* that can be taken is taken
FairSpec == Spec /\ WF_vars(Next)

\* run() is called again on the same agent object, after it returned or
\* raised: the locals of run() are new, the fields of the object are kept
\* (run() assigns to none of them before the loop)
RunAgain ==
    /\ pc \in {"returned", "raised"}
    /\ pc' = "loop"
    /\ turn' = 0
    /\ state' = NoValue
    /\ tool_calls' = <<>>
    /\ result' = NoValue
    /\ error' = ""
    /\ probes' = <<>>
    /\ plans' = <<>>
    /\ dispatched' = <<>>
    /\ UNCHANGED <<config, history, transport, proposal>>

AgentNext == Next \/ RunAgain

\* an agent object whose run() is called any number of times
AgentSpec == Init /\ [][AgentNext]_vars

\* the adapter on its own: any caller, any tool name, any arguments, and a
\* server that answers each request in any way
TransportNames == ToolNames \cup {"State-Tool"}
TransportArguments == {Null, EmptyDict, TextArgs, Dict("use_vision" :> PyTrue)}

\* one call of MCPToolAdapter.invoke
InvokeCall ==
    /\ \E name \in TransportNames, arguments \in TransportArguments,
          outs \in TransportOutcomes :
          transport' = Call("invoke", name, arguments, outs,
                            invoke(name, arguments, outs))
    /\ UNCHANGED <<config, history, pc, turn, state, tool_calls, result, error,
                   probes, plans, dispatched, proposal>>

\* one call of MCPToolAdapter.get_state
GetStateCall ==
    /\ \E flag \in BOOLEAN, outs \in TransportOutcomes :
          transport' = Call("get_state", "", PyBool(flag), outs,
                            get_state(flag, outs))
    /\ UNCHANGED <<config, history, pc, turn, state, tool_calls, result, error,
                   probes, plans, dispatched, proposal>>

TransportNext == InvokeCall \/ GetStateCall

TransportSpec == Init /\ [][TransportNext]_vars

\* the planner client on its own: one call of propose_actions, on any
\* response of the remote model; a part's arguments come in any of the
\* forms _parse_args tells apart
PlannerParts ==
    {CallPart(c.name, RawArgs(form, c.args.value)) :
        c \in CallParts, form \in {"message", "mapping", "opaque"}}
        \cup {TextPart}
PlannerResponses ==
    {ErrorResponse}
        \cup {OkResponse(<<>>, t) : t \in Texts}
        \cup {OkResponse(<<[parts |-> ps]>>, t) :
                 ps \in SeqsUpTo(PlannerParts, MaxParts), t \in Texts}

\* one call of GeminiPlanner.propose_actions
ProposeCall ==
    /\ ~proposal.called
    /\ \E response \in PlannerResponses :
          proposal' = Proposal(response,
                               propose_actions(objective, "desktop", <<>>, response))
    /\ UNCHANGED <<config, history, pc, turn, state, tool_calls, result, error,
                   probes, plans, dispatched, transport>>

PlannerNext == ProposeCall

PlannerSpec == Init /\ [][PlannerNext]_vars

Terminal == {"returned", "raised"}

TypeOK ==
    /\ pc \in {"loop", "plan", "act"} \cup Terminal
    /\ turn \in 0..(MaxTurns + 1)
    /\ Len(history) <= MaxHistory

\* ------------------------------------------------------------------------
\* How a run ended
\* ------------------------------------------------------------------------
Last(q) == q[Len(q)]

Max(a, b) == IF a >= b THEN a ELSE b

\* run() ended on a finish_task action (Finish leaves it at the head)
EndedByFinish ==
    /\ pc \in Terminal
    /\ tool_calls # <<>>
    /\ Head(tool_calls).name = "finish_task"

\* run() ended on the break after an empty proposal
EndedByEmptyProposal ==
    /\ pc = "returned"
    /\ tool_calls = <<>>
    /\ plans # <<>>
    /\ Last(plans).turn = turn
    /\ Last(plans).calls = <<>>

\* run() ended because range(max_turns) was exhausted
EndedByTurnCeiling ==
    /\ pc = "returned"
    /\ tool_calls = <<>>
    /\ turn >= max_turns
    /\ plans # <<>> => Last(plans).calls # <<>>

\* run() ended because get_state raised
EndedByProbeFailure ==
    /\ pc = "raised"
    /\ error = "MCPCallError"
    /\ probes # <<>>
    /\ Last(probes).failed

\* what is left of the run: the turns not yet started, then the rest of the
\* current turn (the proposal not yet asked for counts as longer than any
\* proposal)
Rank ==
    IF pc \in Terminal THEN 0
    ELSE 1 + (MaxParts + 2) * Max(max_turns - turn, 0)
           + (CASE pc = "plan" -> MaxParts + 1
                [] pc = "act" -> Len(tool_calls)
                [] OTHER -> 0)

\* C1: run() always terminates.  Every step of the loop uses up a turn or an
\* action of the current proposal, so no path probes, plans or dispatches
\* forever; the run reaches a terminal state, and it gets there by a
\* finish_task action, by an empty proposal, by the turn ceiling or by a
\* failed state probe.
RunTerminates ==
    /\ <>(pc \in Terminal)
    /\ [][Rank' < Rank]_vars
    /\ [](pc \in Terminal =>
            \/ EndedByFinish
            \/ EndedByEmptyProposal
            \/ EndedByTurnCeiling
            \/ EndedByProbeFailure)

\* a run that used up both its turns, dispatching in them, and hit the ceiling
RunTerminatesWitness ==
    /\ EndedByTurnCeiling
    /\ turn = 2
    /\ Len(plans) = 2
    /\ Len(history) = 2
    /\ \E i \in 1..Len(dispatched) : dispatched[i].failed

\* ------------------------------------------------------------------------
\* What the planner did in a run, read off the record of its calls
\* ------------------------------------------------------------------------
\* the first proposal of the run begins with a finish_task action
FirstProposalIsFinish ==
    /\ plans # <<>>
    /\ plans[1].calls # <<>>
    /\ plans[1].calls[1].name = "finish_task"

\* that action's arguments are a mapping that supplies a summary
FirstFinishSuppliesSummary ==
    /\ FirstProposalIsFinish
    /\ HasGet(plans[1].calls[1].arguments)
    /\ "summary" \in DOMAIN plans[1].calls[1].arguments.items

\* the planner was called in every turn begun, and returned [] every time
PlannerAlwaysReturnedEmpty ==
    /\ Len(plans) = turn
    /\ \A i \in 1..Len(plans) : ~plans[i].raised /\ plans[i].calls = <<>>

\* the planner was called in every turn begun, and raised every time
PlannerAlwaysRaised ==
    /\ Len(plans) = turn
    /\ \A i \in 1..Len(plans) : plans[i].raised

\* no probe failed, no proposal was empty, no proposal held a finish_task
NeverFinishNorEmpty ==
    /\ \A i \in 1..Len(probes) : ~probes[i].failed
    /\ \A i \in 1..Len(plans) :
          /\ plans[i].calls # <<>>
          /\ \A j \in 1..Len(plans[i].calls) : plans[i].calls[j].name # "finish_task"

\* C2: when the first proposal of a run is a finish action, the run makes
\* exactly one state probe and one planner call and dispatches no tool; it
\* ends in that first turn, and when the action supplies a summary, run()
\* returns exactly that value.
FirstFinishReturnsSummary ==
    FirstProposalIsFinish =>
        /\ Len(probes) = 1
        /\ Len(plans) = 1
        /\ turn = 1
        /\ dispatched = <<>>
        /\ history = <<>>
        /\ pc \in {"act"} \cup Terminal
        /\ (pc \in Terminal /\ FirstFinishSuppliesSummary) =>
              /\ pc = "returned"
              /\ result = plans[1].calls[1].arguments.items["summary"]

\* run() returned the summary of a finish action proposed first, ahead of
\* another action of the same proposal, with turns to spare
FirstFinishReturnsSummaryWitness ==
    /\ pc = "returned"
    /\ FirstFinishSuppliesSummary
    /\ Len(plans[1].calls) = 2
    /\ max_turns = 3
    /\ result = Str("typed hello in notepad")

\* C3, as claimed: whenever the planner always returns an empty proposal,
\* run() ends after exactly one probe and one planner call with the canned
\* result, for every max_turns.
EmptyProposalEndsAfterOneTurnAnyMaxTurns ==
    (pc \in Terminal /\ PlannerAlwaysReturnedEmpty) =>
        /\ pc = "returned"
        /\ result = Canned
        /\ Len(probes) = 1
        /\ Len(plans) = 1
        /\ dispatched = <<>>

\* C3, amended: for every max_turns >= 1, a run whose planner returns an
\* empty proposal in every turn it is asked ends after exactly one turn (one
\* probe, one planner call, no dispatch) with the canned result; with
\* max_turns <= 0 the run returns the same canned result after no turn.
EmptyProposalEndsAfterOneTurn ==
    (pc \in Terminal /\ PlannerAlwaysReturnedEmpty) =>
        /\ pc = "returned"
        /\ result = Canned
        /\ dispatched = <<>>
        /\ Len(probes) = Len(plans)
        /\ Len(plans) = IF max_turns >= 1 THEN 1 ELSE 0
        /\ turn = Len(plans)

\* the planner returned [] in turn 1 of 3 and run() returned the canned text
EmptyProposalEndsAfterOneTurnWitness ==
    /\ pc = "returned"
    /\ max_turns = 3
    /\ Len(plans) = 1
    /\ PlannerAlwaysReturnedEmpty
    /\ result = Canned

\* C4, as claimed: with no probe failure, no empty proposal and no finish
\* action, run() makes exactly max_turns probes and planner calls and then
\* returns the canned result.
RunsExactlyMaxTurnsCycles ==
    (pc \in Terminal /\ NeverFinishNorEmpty) =>
        /\ pc = "returned"
        /\ result = Canned
        /\ Len(probes) = max_turns
        /\ Len(plans) = max_turns

\* C4, amended: with no probe failure, no empty proposal and no finish
\* action, run() makes exactly max(max_turns, 0) probe/plan/act cycles and
\* then returns the canned result.
RunsExactlyMaxTurnsOrZeroCycles ==
    (pc \in Terminal /\ NeverFinishNorEmpty) =>
        /\ pc = "returned"
        /\ result = Canned
        /\ Len(probes) = Max(max_turns, 0)
        /\ Len(plans) = Max(max_turns, 0)
        /\ turn = Max(max_turns, 0)
        /\ \A t \in 1..turn : \E i \in 1..Len(dispatched) : dispatched[i].turn = t

\* two full cycles, each with a dispatch, then the canned result
RunsExactlyMaxTurnsOrZeroCyclesWitness ==
    /\ pc = "returned"
    /\ NeverFinishNorEmpty
    /\ max_turns = 2
    /\ Len(plans) = 2
    /\ Len(dispatched) = 2
    /\ result = Canned

\* C5: history has one entry per action handed to the transport, in dispatch
\* order, whether or not the call failed: the i-th entry names the i-th
\* dispatched action with its arguments, and its result is a failure
\* description exactly when that dispatch raised MCPCallError.
HistoryMatchesDispatches ==
    /\ Len(history) = Len(dispatched)
    /\ \A i \in 1..Len(dispatched) :
          /\ dispatched[i].name # "finish_task"
          /\ i <= Len(history) =>
                /\ history[i].tool = dispatched[i].name
                /\ history[i].args = dispatched[i].arguments
                /\ history[i].result \in FailureResults <=> dispatched[i].failed

\* a failed dispatch followed by a successful one, both recorded
HistoryMatchesDispatchesWitness ==
    /\ Len(dispatched) = 2
    /\ dispatched[1].failed
    /\ ~dispatched[2].failed
    /\ Len(history) = 2
    /\ history[1].result \in FailureResults

\* the step is a dispatch on which the transport raised MCPCallError
FailedDispatchStep ==
    /\ Len(dispatched') = Len(dispatched) + 1
    /\ Last(dispatched').failed

\* C6: an MCPCallError raised while dispatching an ordinary action does not
\* end the run: the step appends one history entry whose result is the
\* failure text and goes on with the remaining actions of the turn, and
\* every later planner call is handed a history that holds that entry.
FailedDispatchIsRecorded ==
    /\ [][FailedDispatchStep =>
            /\ pc' \in {"loop", "act"}
            /\ error' = ""
            /\ Len(history') = Len(history) + 1
            /\ Last(history').tool = Head(tool_calls).name
            /\ Last(history').result \in FailureResults
            /\ tool_calls' = Tail(tool_calls)
            /\ tool_calls' # <<>> => pc' = "act"]_vars
    /\ [](\A j \in 1..Len(plans) : \A i \in 1..Len(dispatched) :
            (dispatched[i].failed /\ dispatched[i].turn < plans[j].turn) =>
                /\ i <= Len(plans[j].history)
                /\ plans[j].history[i].tool = dispatched[i].name
                /\ plans[j].history[i].result \in FailureResults)

\* the first of two actions of turn 1 failed, the second was still
\* dispatched, and the planner of turn 2 was handed both entries
FailedDispatchIsRecordedWitness ==
    /\ Len(plans) = 2
    /\ Len(dispatched) = 2
    /\ dispatched[1].failed
    /\ dispatched[1].turn = 1
    /\ dispatched[2].turn = 1
    /\ Len(plans[2].history) = 2
    /\ plans[2].history[1].result \in FailureResults

\* C7: a failed state probe is fatal.  It is the last probe of the run (no
\* retry), run() is left by the MCPCallError without a result, and neither a
\* planner call nor a dispatch is made in or after the turn of the failure.
ProbeFailureIsFatal ==
    \A i \in 1..Len(probes) :
        probes[i].failed =>
            /\ i = Len(probes)
            /\ pc = "raised"
            /\ error = "MCPCallError"
            /\ result = NoValue
            /\ Len(plans) = i - 1
            /\ \A j \in 1..Len(plans) : plans[j].turn < probes[i].turn
            /\ \A j \in 1..Len(dispatched) : dispatched[j].turn < probes[i].turn

\* the probe of the second turn failed, after a first turn that dispatched
ProbeFailureIsFatalWitness ==
    /\ Len(probes) = 2
    /\ probes[2].failed
    /\ dispatched # <<>>
    /\ pc = "raised"

\* C8, as claimed: when the planner call throws on every turn, run() returns
\* the canned message after exactly one probe and one planner call,
\* regardless of max_turns.
PlannerErrorEndsAfterOneTurnAnyMaxTurns ==
    (pc \in Terminal /\ PlannerAlwaysRaised) =>
        /\ pc = "returned"
        /\ result = Canned
        /\ Len(probes) = 1
        /\ Len(plans) = 1

\* C8, amended: for every max_turns >= 1, when the planner call throws in
\* every turn, run() returns the canned message after turn 1: the caught
\* error counts as an empty proposal, so exactly one probe and one planner
\* call happen; with max_turns <= 0 the canned message is returned with no
\* probe and no planner call.
PlannerErrorEndsAfterOneTurn ==
    (pc \in Terminal /\ PlannerAlwaysRaised) =>
        /\ pc = "returned"
        /\ result = Canned
        /\ dispatched = <<>>
        /\ Len(probes) = Len(plans)
        /\ Len(plans) = IF max_turns >= 1 THEN 1 ELSE 0
        /\ \A i \in 1..Len(plans) : plans[i].calls = <<>>

\* the planner raised in turn 1 of 3 and run() returned the canned text
PlannerErrorEndsAfterOneTurnWitness ==
    /\ pc = "returned"
    /\ max_turns = 3
    /\ Len(plans) = 1
    /\ plans[1].raised
    /\ result = Canned

\* C9, as claimed: no error ever propagates out of propose_actions.
ProposeActionsNeverRaises ==
    \A i \in 1..Len(plans) : ~plans[i].raised

\* C9, amended: a failure of the remote model call does propagate out of
\* propose_actions; it is caught one level up, by the loop's _next_actions,
\* which turns it into an empty proposal, so no planning error ever
\* propagates out of run().
PlannerErrorStopsAtNextActions ==
    /\ error # "Exception"
    /\ \A i \in 1..Len(plans) :
          plans[i].raised =>
              /\ plans[i].calls = <<>>
              /\ i = Len(plans)
              /\ pc = "returned"
              /\ result = Canned

\* propose_actions raised in the second turn, after a turn that dispatched
PlannerErrorStopsAtNextActionsWitness ==
    /\ Len(plans) = 2
    /\ plans[2].raised
    /\ history # <<>>
    /\ pc = "returned"

\* C10: every run ends with a string returned by run() or with the failure
\* of the state probe; no other error leaves run().
RunEndsWithStringOrProbeFailure ==
    pc \in Terminal =>
        \/ pc = "returned" /\ IsStr(result)
        \/ EndedByProbeFailure

\* ------------------------------------------------------------------------
\* The adapter's calls
\* ------------------------------------------------------------------------
\* the last call was an invoke whose request to candidate i failed
CandidateFailed(i) ==
    /\ Len(transport.outs) >= i
    /\ transport.outs[i].kind \in {"status", "exc"}

\* every candidate of the last call was requested and failed
AllCandidatesFailed ==
    /\ Len(transport.outs) = 2
    /\ CandidateFailed(1)
    /\ CandidateFailed(2)

\* the decoded body of a 2xx response: the JSON value, else the raw text
Decoded(body) == IF body.decodable THEN body.json ELSE Str(body.text)

\* C11: whenever the request to /call fails (by a non-2xx response or by an
\* exception) and the request to /tools/<name> returns 2xx, invoke returns
\* the decoded body of the second response and does not raise.
SecondCandidateAnswers ==
    (/\ transport.method = "invoke"
     /\ Len(transport.outs) = 2
     /\ CandidateFailed(1)
     /\ transport.outs[2].kind = "ok")
    => /\ ~transport.raised
       /\ transport.value = Decoded(transport.outs[2].body)
       /\ Len(transport.requests) = 2
       /\ transport.requests[1].url = base_url \o "/call"
       /\ transport.requests[2].url = base_url \o "/tools/" \o transport.name

\* /call raised, /tools/App-Tool answered 2xx with a body that is not JSON
SecondCandidateAnswersWitness ==
    /\ transport.method = "invoke"
    /\ transport.name = "App-Tool"
    /\ Len(transport.outs) = 2
    /\ transport.outs[1].kind = "exc"
    /\ transport.outs[2] = Ok(TextBody)
    /\ transport.value = Str("done")

\* what may stand before and after a piece of an MCPCallError's message
MessagePrefixes ==
    {"", "Failed to call MCP tool ", "Failed to call MCP tool via "}
    \cup {"Failed to call MCP tool " \o n \o " via " : n \in TransportNames}
MessageSuffixes ==
    {""} \cup {": " \o e : e \in Errors}
    \cup {" via " \o base_url} \cup {" via " \o base_url \o ": " \o e : e \in Errors}

\* `piece in message`
Contains(message, piece) ==
    \E before \in MessagePrefixes, after \in MessageSuffixes :
        message = before \o piece \o after

\* C12: if every candidate request of invoke fails, by a non-2xx status or
\* by an exception in any combination, invoke raises MCPCallError and no
\* other error, and the message contains the tool name and the base address.
AllFailedRaisesCallError ==
    (transport.method = "invoke" /\ AllCandidatesFailed)
    => /\ transport.raised
       /\ transport.exc = "MCPCallError"
       /\ Contains(transport.message, transport.name)
       /\ Contains(transport.message, base_url)

\* /call answered non-2xx and /tools/recall raised
AllFailedRaisesCallErrorWitness ==
    /\ transport.method = "invoke"
    /\ transport.name = "recall"
    /\ AllCandidatesFailed
    /\ transport.outs[1].kind = "status"
    /\ transport.outs[2].kind = "exc"
    /\ transport.raised

\* C16: get_state(use_vision) makes one invoke of "State-Tool" with the
\* single boolean argument use_vision (one request for each candidate tried),
\* and what it returns is a str: a str result unchanged, any other result
\* as its JSON text.
GetStateReturnsStr ==
    transport.method = "get_state" =>
        LET argument == Dict("use_vision" :> transport.arguments)
            answer == Last(transport.outs)
        IN  /\ transport.arguments \in {PyTrue, PyFalse}
            /\ Len(transport.requests) = Len(transport.outs)
            /\ Len(transport.requests) \in 1..2
            /\ transport.requests[1] =
                  [url |-> base_url \o "/call",
                   json |-> Dict(("name" :> Str("State-Tool")) @@
                                 ("arguments" :> argument))]
            /\ Len(transport.requests) = 2 =>
                  transport.requests[2] =
                      [url |-> base_url \o "/tools/State-Tool", json |-> argument]
            /\ transport.raised <=> answer.kind # "ok"
            /\ ~transport.raised =>
                  /\ IsStr(transport.value)
                  /\ transport.value =
                        IF answer.body.decodable /\ IsStr(answer.body.json)
                        THEN answer.body.json
                        ELSE Str(answer.body.text)

\* State-Tool answered a JSON object at the second candidate
GetStateReturnsStrWitness ==
    /\ transport.method = "get_state"
    /\ transport.arguments = PyFalse
    /\ Len(transport.outs) = 2
    /\ Last(transport.outs) = Ok(JsonBody)
    /\ transport.value = Str("{\"text\": \"ok\"}")

\* C20: when every candidate fails, the MCPCallError's message embeds the
\* failure of the last candidate attempted, whatever the kinds of the two
\* failures: the exception's text when the last request raised, and some
\* account of the response when it answered non-2xx (so the message is
\* neither bare nor closed by an exception's text).
MessageEmbedsLastFailure ==
    (transport.method = "invoke" /\ AllCandidatesFailed) =>
        LET bare == "Failed to call MCP tool " \o transport.name \o " via " \o base_url
            last == transport.outs[2]
        IN  IF last.kind = "exc"
            THEN transport.message = bare \o ": " \o last.err
            ELSE transport.message \notin {bare} \cup {bare \o ": " \o e : e \in Errors}

\* ------------------------------------------------------------------------
\* Names outside the declarations
\* ------------------------------------------------------------------------
\* the names of the declarations the planner was built with
DeclaredNames ==
    {planner_tool_declarations[i].name : i \in 1..Len(planner_tool_declarations)}

\* C13: an action whose name is in no declaration (and is not the finish
\* name) is a dispatch failure and not a crash: the run goes on, and the
\* history entry recorded for it carries a failure result, never the result
\* of a successful tool call.
UndeclaredNameIsDispatchFailure ==
    /\ Len(history) = Len(dispatched)
    /\ \A i \in 1..Len(dispatched) :
          dispatched[i].name \notin DeclaredNames =>
              /\ history[i].tool = dispatched[i].name
              /\ history[i].result \in FailureResults

\* ------------------------------------------------------------------------
\* k dispatching turns, then finish
\* ------------------------------------------------------------------------
\* the planner's first k proposals were one action each, none of them
\* finish_task, and its next proposal began with finish_task and a summary
OneActionTurnsThenFinish(k) ==
    /\ Len(plans) > k
    /\ \A j \in 1..k :
          /\ Len(plans[j].calls) = 1
          /\ ~IsFinish(plans[j].calls[1])
    /\ plans[k + 1].calls # <<>>
    /\ plans[k + 1].calls[1].name = "finish_task"
    /\ plans[k + 1].calls[1].arguments.type = "dict"
    /\ "summary" \in DOMAIN plans[k + 1].calls[1].arguments.items

\* every tool call made so far succeeded
EveryDispatchSucceeded ==
    \A i \in 1..Len(dispatched) : ~dispatched[i].failed

\* C14: for every k >= 0 and max_turns > k, if each of the turns 1..k
\* proposes one action that is not finish and is dispatched successfully,
\* and turn k + 1 proposes finish with summary s, then run() returns s,
\* history has exactly k entries in the order of the turns, and exactly
\* k + 1 probes and k + 1 planner calls were made.
DispatchingTurnsThenFinish ==
    \A k \in 0..MaxTurns :
        (pc \in Terminal /\ OneActionTurnsThenFinish(k) /\ EveryDispatchSucceeded)
        => /\ max_turns > k
           /\ pc = "returned"
           /\ result = plans[k + 1].calls[1].arguments.items["summary"]
           /\ Len(history) = k
           /\ \A j \in 1..k :
                 /\ history[j].tool = plans[j].calls[1].name
                 /\ history[j].args = plans[j].calls[1].arguments
                 /\ history[j].result \notin FailureResults
           /\ Len(probes) = k + 1
           /\ Len(plans) = k + 1

\* the notepad scenario, k = 2: two turns of one tool call, then finish
DispatchingTurnsThenFinishWitness ==
    /\ pc = "returned"
    /\ OneActionTurnsThenFinish(2)
    /\ EveryDispatchSucceeded
    /\ max_turns = 3
    /\ history[1].tool = "App-Tool"
    /\ history[2].tool = "recall"
    /\ result = Str("typed hello in notepad")

\* ------------------------------------------------------------------------
\* The declarations during a run
\* ------------------------------------------------------------------------
\* one declaration is named finish_task, its only parameter is the required
\* string 'summary', and no two declarations share a name
OneFinishDeclaration ==
    LET decls == planner_tool_declarations
        finishes == {i \in 1..Len(decls) : decls[i].name = "finish_task"}
    IN  /\ Cardinality(finishes) = 1
        /\ \A i \in finishes :
              /\ DOMAIN decls[i].properties = {"summary"}
              /\ decls[i].properties["summary"] = "string"
              /\ decls[i].required = <<"summary">>
        /\ \A i, j \in 1..Len(decls) : decls[i].name = decls[j].name => i = j

\* no step of the run changes the declarations
DeclarationsUnchanged ==
    [][planner_tool_declarations' = planner_tool_declarations]_vars

\* C15: the declarations build_agent hands to the planner hold exactly one
\* finish declaration, finish_task, with the single required string field
\* 'summary'; all names are pairwise distinct; and the list, built before
\* the run, is changed by no step of the run.
DeclarationsClosedAndFixed == []OneFinishDeclaration /\ DeclarationsUnchanged

\* a run of two turns that dispatched a tool call and ended, with the twelve
\* declarations of build_agent
DeclarationsClosedAndFixedWitness ==
    /\ pc \in Terminal
    /\ Len(plans) = 2
    /\ history # <<>>
    /\ Len(planner_tool_declarations) = 12
    /\ planner_tool_declarations[12].name = "finish_task"

\* ------------------------------------------------------------------------
\* A planner error with turns left
\* ------------------------------------------------------------------------
\* the step is a planner call in which propose_actions raised
PlannerRaisedStep ==
    /\ Len(plans') = Len(plans) + 1
    /\ Last(plans').raised

\* C17, as claimed: when the planner call raises in a turn and the turn
\* ceiling has not been reached, the run does not end; the turn counts as
\* one of zero actions and the loop goes on to the next iteration's probe.
PlannerErrorConsumesTurn ==
    [][(PlannerRaisedStep /\ turn < max_turns) => pc' = "loop"]_vars

\* C17, amended: when the planner call raises in a turn, the turn counts as
\* one of zero actions, and an empty proposal ends the run at once: run()
\* returns the canned result, the turn is the last one, and the state is
\* not probed again, whether or not the turn ceiling has been reached.
PlannerErrorEndsRun ==
    /\ [][PlannerRaisedStep =>
            /\ Last(plans').calls = <<>>
            /\ pc' = "returned"
            /\ result' = Canned
            /\ UNCHANGED <<history, turn, probes, dispatched>>]_vars
    /\ [](\A i \in 1..Len(plans) :
             plans[i].raised => i = Len(plans) /\ Last(probes).turn = plans[i].turn)

\* propose_actions raised in turn 2 of 3, after a turn of two tool calls
PlannerErrorEndsRunWitness ==
    /\ max_turns = 3
    /\ turn = 2
    /\ Len(plans) = 2
    /\ plans[2].raised
    /\ Len(history) = 2
    /\ Len(probes) = 2
    /\ pc = "returned"

\* ------------------------------------------------------------------------
\* The finish action inside a proposal
\* ------------------------------------------------------------------------
\* C18: in every reachable state no history entry has finish_task as its
\* tool: a proposed finish_task is never sent through the transport and
\* never appended to history.
FinishNeverDispatched ==
    /\ \A i \in 1..Len(history) : history[i].tool # "finish_task"
    /\ \A i \in 1..Len(dispatched) : dispatched[i].name # "finish_task"
    /\ transport.method = "invoke" => transport.name # "finish_task"
    /\ \A i \in 1..Len(transport.requests) :
          transport.requests[i].url # base_url \o "/tools/finish_task"

\* a proposal of a tool call followed by finish_task: the run ended with
\* the tool call alone in history
FinishNeverDispatchedWitness ==
    /\ EndedByFinish
    /\ Len(plans) = 1
    /\ Len(plans[1].calls) = 2
    /\ Len(history) = 1
    /\ transport.method = "invoke"

\* the positions of the finish actions in a proposal
FinishPositions(calls) == {i \in 1..Len(calls) : calls[i].name = "finish_task"}

\* the least element of a non-empty set of numbers
Min(S) == CHOOSE x \in S : \A y \in S : x <= y

\* the indices in `dispatched` of the calls made in turn t
DispatchedIn(t) == {d \in 1..Len(dispatched) : dispatched[d].turn = t}

\* C19: when a proposal holds a finish action at position i, no action at
\* a later position of that proposal is dispatched or recorded (the calls
\* of the turn are those before i, in order), and the run returns the
\* summary of the first finish action of the proposal.
FinishEndsProposal ==
    \A j \in 1..Len(plans) :
        LET calls == plans[j].calls
            here == DispatchedIn(plans[j].turn)
        IN  FinishPositions(calls) # {} =>
                LET i == Min(FinishPositions(calls))
                IN  /\ Cardinality(here) <= i - 1
                    /\ \A d \in here :
                          LET position == d - Min(here) + 1
                          IN  /\ position < i
                              /\ dispatched[d].name = calls[position].name
                              /\ history[d].tool = calls[position].name
                    /\ Len(history) = Len(dispatched)
                    /\ pc \in Terminal =>
                          /\ j = Len(plans)
                          /\ Cardinality(here) = i - 1
                          /\ tool_calls = SubSeq(calls, i, Len(calls))
                          /\ calls[i].arguments.type = "dict" =>
                                /\ pc = "returned"
                                /\ result = Get(calls[i].arguments, "summary", Str(""))

\* the second turn proposed finish_task and then a tool call: the run
\* returned the summary and the tool call was left alone
FinishEndsProposalWitness ==
    /\ pc = "returned"
    /\ Len(plans) = 2
    /\ Len(plans[2].calls) = 2
    /\ plans[2].calls[1].name = "finish_task"
    /\ plans[2].calls[2].name = "App-Tool"
    /\ DispatchedIn(2) = {}
    /\ Len(history) = 1
    /\ result = Str("typed hello in notepad")

\* ------------------------------------------------------------------------
\* The requests of one call
\* ------------------------------------------------------------------------
\* the tool name the last call on the adapter was for
CalledName == IF transport.method = "get_state" THEN "State-Tool" ELSE transport.name

\* the requests of the last call: /call first, then /tools/<name>, one
\* request for each candidate tried and none after a 2xx response
CandidatesInOrder ==
    transport.method # "" =>
        /\ Len(transport.requests) \in 1..2
        /\ Len(transport.requests) = Len(transport.outs)
        /\ transport.requests[1].url = base_url \o "/call"
        /\ Len(transport.requests) = 2 =>
              transport.requests[2].url = base_url \o "/tools/" \o CalledName
        /\ \A i \in 1..(Len(transport.requests) - 1) : transport.outs[i].kind # "ok"

\* a step in which the loop calls the transport for an action
DispatchStep == Len(dispatched') = Len(dispatched) + 1

\* C21: one call of invoke tries /call and then /tools/<name>, each at
\* most once: one or two requests, none after the first 2xx response; and
\* the loop makes one such call for an action and then moves on to the next
\* action, whether or not the call failed.
CandidatesTriedOnce ==
    /\ []CandidatesInOrder
    /\ [][DispatchStep =>
            /\ transport'.method = "invoke"
            /\ transport'.name = Head(tool_calls).name
            /\ transport'.arguments = Head(tool_calls).arguments
            /\ Last(dispatched').failed = transport'.raised
            /\ tool_calls' = Tail(tool_calls)
            /\ Len(history') = Len(history) + 1]_vars

\* a tool call whose two requests both failed, made once and recorded,
\* with the next turn's probe already made
CandidatesTriedOnceWitness ==
    /\ Len(dispatched) = 1
    /\ dispatched[1].failed
    /\ Len(history) = 1
    /\ Len(probes) = 2
    /\ transport.method = "get_state"
    /\ Len(transport.requests) = 2

\* C22: for every tool name and arguments, the request invoke sends to
\* /call carries the envelope {name, arguments} and the request it sends to
\* /tools/<name> carries the arguments alone, not the envelope.
EnvelopeOnlyOnCallPath ==
    transport.method = "invoke" =>
        LET envelope ==
                Dict(("name" :> Str(transport.name)) @@
                     ("arguments" :> (IF transport.arguments = Null THEN EmptyDict
                                      ELSE transport.arguments)))
        IN  \A i \in 1..Len(transport.requests) :
                /\ transport.requests[i].url = base_url \o "/call" =>
                      transport.requests[i].json = envelope
                /\ transport.requests[i].url = base_url \o "/tools/" \o transport.name =>
                      transport.requests[i].json = transport.arguments

\* ------------------------------------------------------------------------
\* The order of the calls of a run
\* ------------------------------------------------------------------------
\* q is p, or p with records appended
Extends(q, p) == Len(q) >= Len(p) /\ SubSeq(q, 1, Len(p)) = p

\* the calls made so far are those of whole turns in sequence: probe i and
\* planner call i belong to turn i, and the tool calls of a turn are the
\* first actions of that turn's proposal, in the proposed order
CallsInTurnOrder ==
    /\ Len(plans) <= Len(probes)
    /\ Len(probes) <= Len(plans) + 1
    /\ \A i \in 1..Len(probes) : probes[i].turn = i
    /\ \A i \in 1..Len(plans) : plans[i].turn = i /\ ~probes[i].failed
    /\ \A d \in 1..Len(dispatched) :
          LET t == dispatched[d].turn
              position == d - Min(DispatchedIn(t)) + 1
          IN  /\ t \in 1..Len(plans)
              /\ d > 1 => dispatched[d - 1].turn <= t
              /\ position <= Len(plans[t].calls)
              /\ dispatched[d].name = plans[t].calls[position].name
              /\ dispatched[d].arguments = plans[t].calls[position].arguments
    /\ \A t \in 1..Len(plans) :
          (t < Len(plans) \/ Len(probes) > Len(plans)) =>
              Cardinality(DispatchedIn(t)) = Len(plans[t].calls)

\* a step makes at most one call: one record more in one of the logs
OneCallPerStep ==
    /\ Extends(probes', probes)
    /\ Extends(plans', plans)
    /\ Extends(dispatched', dispatched)
    /\ Len(probes') + Len(plans') + Len(dispatched')
          <= Len(probes) + Len(plans) + Len(dispatched) + 1

\* a probe is made only when every call of the turn before has returned and
\* has been recorded
ProbeAfterLastDispatch ==
    Len(probes') > Len(probes) =>
        /\ tool_calls = <<>>
        /\ Len(probes) = Len(plans)
        /\ Len(history) = Len(dispatched)

\* C23: the calls of a run happen one at a time and in a fixed order: each
\* turn makes one state probe, then one planner call, then the tool calls
\* in the order the planner proposed them; no two calls are in flight at
\* once, and the next turn's probe starts only after the last tool call of
\* the turn has returned and been recorded.
TurnsAreSequential ==
    /\ []CallsInTurnOrder
    /\ [][OneCallPerStep /\ ProbeAfterLastDispatch]_vars

\* the second turn's probe, made after the two tool calls of the first turn
TurnsAreSequentialWitness ==
    /\ pc = "plan"
    /\ turn = 2
    /\ Len(probes) = 2
    /\ Len(plans) = 1
    /\ Len(plans[1].calls) = 2
    /\ Len(dispatched) = 2
    /\ Len(history) = 2

\* ------------------------------------------------------------------------
\* What propose_actions makes of a response
\* ------------------------------------------------------------------------
\* the parts of the first candidate of the response
PartsOf(response) ==
    IF response.candidates = <<>> THEN <<>> ELSE response.candidates[1].parts

\* the positions of the parts that hold a function call
CallPositions(parts) == {i \in 1..Len(parts) : parts[i].has_call}

\* the k-th smallest element of a set of numbers
Nth(S, k) == CHOOSE x \in S : Cardinality({y \in S : y < x}) = k - 1

\* the arguments of a part, decoded; {} where they cannot be decoded
DecodedArgs(part) ==
    IF part.args.form \in {"message", "mapping"} THEN part.args.value ELSE EmptyDict

\* the text payload is a JSON object with a 'tool' key
TextNamesTool(text) ==
    /\ text.present
    /\ text.parses
    /\ text.json.type = "dict"
    /\ "tool" \in DOMAIN text.json.items

\* C24: propose_actions follows the parsing policy in order. If the response
\* has structured function-call parts it returns one action for each, in the
\* order of the parts, skipping parts without a call, and does not use the
\* text; otherwise, if the text parses as an object with a 'tool' key, it
\* returns the one action built from it; otherwise it returns no action.
ParsingPolicyInOrder ==
    (proposal.called /\ proposal.response.kind = "ok") =>
        LET parts == PartsOf(proposal.response)
            text == proposal.response.text
            value == proposal.value
        IN  /\ ~proposal.raised
            /\ IF CallPositions(parts) # {}
               THEN /\ Len(value) = Cardinality(CallPositions(parts))
                    /\ \A k \in 1..Len(value) :
                          LET part == parts[Nth(CallPositions(parts), k)]
                          IN  /\ value[k].name = part.name
                              /\ value[k].arguments = DecodedArgs(part)
               ELSE IF TextNamesTool(text)
               THEN /\ Len(value) = 1
                    /\ value[1].name = text.json.items["tool"].str
                    /\ value[1].arguments =
                          IF "arguments" \in DOMAIN text.json.items
                          THEN text.json.items["arguments"] ELSE EmptyDict
               ELSE value = <<>>

\* two function-call parts for different tools, and a text that names a
\* third tool: the two parts' actions are returned, in their order
ParsingPolicyInOrderWitness ==
    /\ proposal.called
    /\ Len(PartsOf(proposal.response)) = 2
    /\ TextNamesTool(proposal.response.text)
    /\ Len(proposal.value) = 2
    /\ proposal.value[1].name = "App-Tool"
    /\ proposal.value[2].name = "finish_task"

\* C25: when the arguments of one function-call part cannot be decoded, the
\* proposal is not aborted: that part's action is still returned, with an
\* empty argument map, and the other parts are decoded and returned in
\* order.
UndecodableArgsKeepProposal ==
    (/\ proposal.called
     /\ proposal.response.kind = "ok"
     /\ \E i \in CallPositions(PartsOf(proposal.response)) :
           PartsOf(proposal.response)[i].args.form = "opaque")
    => LET parts == PartsOf(proposal.response)
           value == proposal.value
       IN  /\ ~proposal.raised
           /\ Len(value) = Cardinality(CallPositions(parts))
           /\ \A k \in 1..Len(value) :
                 LET part == parts[Nth(CallPositions(parts), k)]
                 IN  /\ value[k].name = part.name
                     /\ part.args.form = "opaque" => value[k].arguments = EmptyDict
                     /\ part.args.form # "opaque" =>
                           value[k].arguments = part.args.value

\* an App-Tool part whose arguments cannot be decoded, followed by a
\* finish_task part whose arguments can
UndecodableArgsKeepProposalWitness ==
    /\ proposal.called
    /\ Len(PartsOf(proposal.response)) = 2
    /\ PartsOf(proposal.response)[1].args.form = "opaque"
    /\ PartsOf(proposal.response)[2].args.form = "message"
    /\ proposal.value =
          <<ToolCall("App-Tool", EmptyDict), ToolCall("finish_task", SummaryArgs)>>

\* ------------------------------------------------------------------------
\* History within a run
\* ------------------------------------------------------------------------
\* the number of tool calls made in the turns before turn t
DispatchedBefore(t) == Cardinality({d \in 1..Len(dispatched) : dispatched[d].turn < t})

\* the planner call of turn plans[i].turn was given every entry recorded in
\* the turns before it, in order, and its prompt has one line for each
ReplayedInFull(i) ==
    LET n == DispatchedBefore(plans[i].turn)
        block == plans[i].prompt.history_block
    IN  /\ n <= Len(history)
        /\ plans[i].history = SubSeq(history, 1, n)
        /\ IF n = 0 THEN block = <<"(none yet)">>
           ELSE /\ Len(block) = n
                /\ \A k \in 1..n : block[k] = HistoryLine(history[k])

\* C26: history is append-only within a run and is replayed in full: the
\* history of a later state has the history of every earlier state as a
\* prefix, and the history given to the planner in turn k is exactly the
\* sequence of the entries recorded in the turns before k, in the order
\* they were recorded.
HistoryAppendOnlyAndReplayed ==
    /\ [][Extends(history', history)]_vars
    /\ [](\A i \in 1..Len(plans) : ReplayedInFull(i))

\* the second turn's planner call, after a first turn of two tool calls
HistoryAppendOnlyAndReplayedWitness ==
    /\ Len(plans) = 2
    /\ Len(plans[2].history) = 2
    /\ plans[2].history[1].tool = "App-Tool"
    /\ plans[2].history[1].result \in FailureResults
    /\ Len(plans[2].prompt.history_block) = 2

\* ------------------------------------------------------------------------
\* History across runs
\* ------------------------------------------------------------------------
\* C27: history is discarded when a run ends: every call of run(), a
\* second call on the same agent object included, starts with an empty
\* history, so its first planner call is given an empty history and the
\* prompt's '(none yet)' placeholder.
EveryRunStartsWithEmptyHistory ==
    /\ (pc = "loop" /\ turn = 0) => history = <<>>
    /\ plans # <<>> =>
          /\ plans[1].history = <<>>
          /\ plans[1].prompt.history_block = <<"(none yet)">>

\* ------------------------------------------------------------------------
\* The calls a run can make
\* ------------------------------------------------------------------------
\* the number of state probes that returned a snapshot
SuccessfulProbes == Cardinality({i \in 1..Len(probes) : ~probes[i].failed})

\* C28: in every reachable state the run has made at most max(max_turns, 0)
\* state probes and at most as many planner calls, and one planner call for
\* each successful probe (the call for the latest probe still to come while
\* run() stands between the two); with max_turns <= 0 run() returns the
\* canned result without any probe, planner call or dispatch.
CallsWithinMaxTurns ==
    /\ Len(probes) <= Max(max_turns, 0)
    /\ Len(plans) <= Max(max_turns, 0)
    /\ Len(plans) = IF pc = "plan" THEN SuccessfulProbes - 1 ELSE SuccessfulProbes
    /\ max_turns <= 0 =>
          /\ probes = <<>>
          /\ plans = <<>>
          /\ dispatched = <<>>
          /\ pc \in {"loop", "returned"}
          /\ pc = "returned" => result = Canned

\* a run of max_turns = 2 that used both turns and ended at the ceiling
CallsWithinMaxTurnsWitness ==
    /\ max_turns = 2
    /\ Len(probes) = 2
    /\ Len(plans) = 2
    /\ SuccessfulProbes = 2
    /\ pc = "returned"
    /\ EndedByTurnCeiling

\* ------------------------------------------------------------------------
\* The actions before a finish action
\* ------------------------------------------------------------------------
\* C29: the actions a proposal places before its finish action are
\* honoured: when a turn proposes [a1..aj, finish, ...], each of a1..aj is
\* dispatched and recorded, in order and failed ones as failure entries,
\* before the run returns the finish summary, so history grows by exactly j
\* in that last turn.
ActionsBeforeFinishHonoured ==
    (pc \in Terminal /\ plans # <<>> /\ FinishPositions(Last(plans).calls) # {}) =>
        LET calls == Last(plans).calls
            j == Min(FinishPositions(calls)) - 1
            before == Len(Last(plans).history)
        IN  /\ Len(history) = before + j
            /\ Len(dispatched) = before + j
            /\ \A k \in 1..j :
                  /\ dispatched[before + k].turn = Last(plans).turn
                  /\ dispatched[before + k].name = calls[k].name
                  /\ history[before + k].tool = calls[k].name
                  /\ history[before + k].args = calls[k].arguments
                  /\ dispatched[before + k].failed <=>
                        history[before + k].result \in FailureResults
            /\ tool_calls # <<>>
            /\ Head(tool_calls) = calls[j + 1]
            /\ calls[j + 1].arguments.type = "dict" =>
                  /\ pc = "returned"
                  /\ result = Get(calls[j + 1].arguments, "summary", Str(""))

\* a proposal of a tool call and then finish_task: the tool call failed,
\* was recorded as a failure, and the run returned the summary
ActionsBeforeFinishHonouredWitness ==
    /\ pc = "returned"
    /\ Len(plans) = 1
    /\ Len(plans[1].calls) = 2
    /\ plans[1].calls[2].name = "finish_task"
    /\ Len(history) = 1
    /\ dispatched[1].failed
    /\ history[1].result \in FailureResults
    /\ result = Str("typed hello in notepad")

\* ------------------------------------------------------------------------
\* The canned result
\* ------------------------------------------------------------------------
\* C30: every run that ends neither on a finish action nor on a failure of
\* the state probe returns one and the same canned string, whether it ended
\* early on an empty proposal (a caught planner error included) or at the
\* turn ceiling: the returned value does not tell the two apart.
OneCannedResult ==
    (pc \in Terminal /\ ~EndedByFinish /\ ~EndedByProbeFailure) =>
        /\ pc = "returned"
        /\ result = Canned
        /\ EndedByEmptyProposal \/ EndedByTurnCeiling

\* a run of max_turns = 3 that ended in its second turn on a planner
\* error, with the string a run at the ceiling returns
OneCannedResultWitness ==
    /\ EndedByEmptyProposal
    /\ ~EndedByTurnCeiling
    /\ max_turns = 3
    /\ turn = 2
    /\ Last(plans).raised
    /\ result = Str("Reached max turns or no further actions were provided.")

\* ------------------------------------------------------------------------
\* What each step leaves alone
\* ------------------------------------------------------------------------
\* a step in which the state is probed, in which the planner is called
ProbeStep == Len(probes') = Len(probes) + 1
PlanStep == Len(plans') = Len(plans) + 1

\* the probe and the planner call leave history as it is
ProbeAndPlanKeepHistory == (ProbeStep \/ PlanStep) => history' = history

\* a tool call adds one entry to history, for the call at the head of the
\* list, and leaves the entries before it and the agent's settings alone
DispatchAppendsOneEntry ==
    DispatchStep =>
        /\ Len(history') = Len(history) + 1
        /\ SubSeq(history', 1, Len(history)) = history
        /\ Last(history').tool = Head(tool_calls).name
        /\ Last(history').args = Head(tool_calls).arguments
        /\ UNCHANGED <<objective, use_vision, max_turns, probes, plans>>

\* every probe made so far was sent with the agent's use_vision
ProbesUseTheVisionFlag ==
    /\ \A i \in 1..Len(probes) : probes[i].use_vision = use_vision
    /\ transport.method = "get_state" => transport.arguments = PyBool(use_vision)

\* C31: the probe and the planning step leave history unchanged, each
\* dispatch of an action other than finish appends exactly one entry and
\* changes nothing else, and no step of the run changes the objective, the
\* vision flag (every probe of a run is sent with the same use_vision) or
\* max_turns.
StepsKeepTheirFrame ==
    /\ [][/\ ProbeAndPlanKeepHistory
          /\ DispatchAppendsOneEntry
          /\ ~DispatchStep => history' = history
          /\ UNCHANGED <<objective, use_vision, max_turns>>]_vars
    /\ []ProbesUseTheVisionFlag

\* two probes sent with use_vision = TRUE, around a turn of two tool calls
StepsKeepTheirFrameWitness ==
    /\ use_vision
    /\ Len(probes) = 2
    /\ probes[2].use_vision
    /\ Len(plans) = 2
    /\ Len(history) = 2
    /\ history[1].tool = "App-Tool"
    /\ objective = "open notepad and type hello"

====
